---- MODULE Spec2Model ----
(***************************************************************************)
(* Job lifecycle and detector pipeline of the repository analyser.         *)
(*                                                                         *)
(* State: the projects and analysis_jobs tables of the store, the          *)
(* background tasks queued by the HTTP handlers, and for every task the    *)
(* position of AnalyzerService.analyze_repository and of the pipeline      *)
(* runner (SimpleLangGraph.run) it drives.                                 *)
(*                                                                         *)
(* The HTTP handlers are `async def` bodies without an await between their *)
(* store calls, so each is one step of the event loop.  A background task  *)
(* is a synchronous function run on a worker thread: every store call it   *)
(* makes is a step of its own and interleaves with the other tasks and     *)
(* with the handlers.  Store calls may raise; the code's handlers for that *)
(* are part of the steps.                                                  *)
(***************************************************************************)
EXTENDS Integers, Sequences, FiniteSets, TLC

\* ---------------------------------------------------------------- bounds
MaxJobs == 2
MaxSubmits == 2
MaxFaults == 1
MaxRunFaults == 2
MaxRot == 2
MaxRows == 2
MaxAuthors == 215

Urls == {"u1", "u2"}
JobIds == 1..MaxJobs

\* ------------------------------------------------------------ the graph
\* build_pipeline: the nodes in add_node order, and the edges.
Detectors ==
    <<"stack", "structure", "maturity", "commits", "quality", "security", "forensics", "judge">>

NodeNames == <<"clone">> \o Detectors \o <<"aggregator">>

Nodes == {NodeNames[i] : i \in 1..Len(NodeNames)}

DetectorSet == {Detectors[i] : i \in 1..Len(Detectors)}

Edges == {<<"clone", d>> : d \in DetectorSet} \cup {<<d, "aggregator">> : d \in DetectorSet}

\* rev_edges[n]
Preds(n) == {e[1] : e \in {x \in Edges : x[2] = n}}

Rotate(s, r) == [i \in 1..Len(s) |-> s[((i - 1 + r) % Len(s)) + 1]]

\* `for v in self.edges.get(u, [])`: edges[u] is a set of strings, whose
\* iteration order depends on the process's string hashing and not on the
\* order of the add_edge calls.  rot selects one of the orders the
\* interpreter may use (rot = 0 is the add_edge order).
SetIter(u, rot) ==
    IF u = "clone" THEN Rotate(Detectors, rot)
    ELSE IF u \in DetectorSet THEN <<"aggregator">>
    ELSE <<>>

\* The inner loop of _toposort: decrement the in-degree of every successor
\* and queue those that reach zero.
RECURSIVE Relax(_, _, _)
Relax(vs, indeg, q) ==
    IF vs = <<>> THEN [indeg |-> indeg, q |-> q]
    ELSE LET v == Head(vs)
             d == indeg[v] - 1
         IN Relax(Tail(vs), [indeg EXCEPT ![v] = d], IF d = 0 THEN Append(q, v) ELSE q)

RECURSIVE Kahn(_, _, _, _)
Kahn(q, order, indeg, rot) ==
    IF q = <<>> THEN order
    ELSE LET u == Head(q)
             r == Relax(SetIter(u, rot), indeg, Tail(q))
         IN Kahn(r.q, Append(order, u), r.indeg, rot)

toposort(rot) ==
    LET indeg == [n \in Nodes |-> Cardinality(Preds(n))]
        q0 == SelectSeq(NodeNames, LAMBDA n : indeg[n] = 0)
    IN Kahn(q0, <<>>, indeg, rot)

\* The runner asked to continue past a node that raises (stop_on_error=False).
stop_on_error_off == FALSE

\* SimpleLangGraph.run(initial_ctx, stop_on_error=True): build_pipeline
\* passes no stop_on_error, so the default applies.
stop_on_error == TRUE

\* ------------------------------------------------------- progress stages
\* The (stage, percent) each node function passes to progress_callback.
NodeStage(n) ==
    CASE n = "clone" -> "cloning"
      [] n = "stack" -> "stack_detection"
      [] n = "structure" -> "structure_analysis"
      [] n = "maturity" -> "maturity_check"
      [] n = "commits" -> "commit_forensics"
      [] n = "quality" -> "quality_check"
      [] n = "security" -> "security_scan"
      [] n = "forensics" -> "forensic_analysis"
      [] n = "judge" -> "ai_judge"
      [] n = "aggregator" -> "aggregation"

NodeProgress(n) ==
    CASE n = "clone" -> 10
      [] n = "stack" -> 20
      [] n = "structure" -> 30
      [] n = "maturity" -> 40
      [] n = "commits" -> 50
      [] n = "quality" -> 60
      [] n = "security" -> 70
      [] n = "forensics" -> 80
      [] n = "judge" -> 90
      [] n = "aggregator" -> 95

\* ProgressTracker.STAGE_PROGRESS.get(stage, 0)
STAGE_PROGRESS(stage) ==
    CASE stage = "starting" -> 0
      [] stage = "cloning" -> 10
      [] stage = "stack_detection" -> 20
      [] stage = "structure_analysis" -> 30
      [] stage = "maturity_check" -> 40
      [] stage = "commit_forensics" -> 50
      [] stage = "quality_check" -> 60
      [] stage = "security_scan" -> 70
      [] stage = "forensic_analysis" -> 80
      [] stage = "ai_judge" -> 90
      [] stage = "aggregation" -> 95
      [] stage = "completed" -> 100
      [] OTHER -> 0

\* ------------------------------------------------------------ store rows
NoProject == [status |-> "absent", scores |-> FALSE, report_json |-> FALSE]

\* ProjectCRUD.create_project: the inserted row (score columns null).
create_project == [status |-> "pending", scores |-> FALSE, report_json |-> FALSE]

\* ProjectCRUD.update_project_status
update_project_status(p, s) == [p EXCEPT !.status = s]

\* project_data with report_json left in it by the retry.
save_project_data_keeps_blob(p, withBlob) ==
    [p EXCEPT !.status = "completed", !.scores = TRUE, !.report_json = TRUE]

\* The project_data written by save_analysis_results: scores, status
\* completed and, when withBlob, the report blob.
save_project_data(p, withBlob) ==
    [p EXCEPT !.status = "completed",
              !.scores = TRUE,
              !.report_json = IF withBlob THEN TRUE ELSE @]

NoJobRow ==
    [project |-> "-", status |-> "none", progress |-> 0, current_stage |-> "-",
     error_message |-> "-", completed_at |-> FALSE]

\* AnalysisJobCRUD.create_job
create_job(u) ==
    [project |-> u, status |-> "queued", progress |-> 0, current_stage |-> "-",
     error_message |-> "-", completed_at |-> FALSE]

\* AnalysisJobCRUD.update_job_progress
update_job_progress(job, progress, stage) ==
    [job EXCEPT !.progress = progress, !.status = "running", !.current_stage = stage]

\* AnalysisJobCRUD.complete_job
complete_job(job) ==
    [job EXCEPT !.status = "completed", !.progress = 100, !.completed_at = TRUE]

\* AnalysisJobCRUD.fail_job
fail_job(job, msg) ==
    [job EXCEPT !.status = "failed", !.error_message = msg, !.completed_at = TRUE]

\* ------------------------------------------------- analyze_repository
\* The try block with the progress write of the aggregation stage moved
\* behind tracker.complete().
TrySteps_update_after_complete ==
    <<"set_analyzing", "starting", "pipeline", "save", "save_tech", "save_issues",
      "save_team", "invalidate", "complete", "agg_update">>

\* save_analysis_results with the cache invalidation placed before the child
\* tables are written.
TrySteps_invalidate_first ==
    <<"set_analyzing", "starting", "pipeline", "agg_update", "save", "invalidate",
      "save_tech", "save_issues", "save_team", "complete">>

\* The statements of the try block of analyze_repository, in order, those of
\* save_analysis_results (save ... invalidate) in their place.
TrySteps ==
    <<"set_analyzing", "starting", "pipeline", "agg_update", "save", "save_tech",
      "save_issues", "save_team", "invalidate", "complete">>

StepIndex(s) == CHOOSE i \in 1..Len(TrySteps) : TrySteps[i] = s

\* The statement after s; after the last one the function returns the report.
NextStep(s) ==
    IF StepIndex(s) = Len(TrySteps) THEN "done" ELSE TrySteps[StepIndex(s) + 1]

VARIABLES
    projects,     \* projects table: repo_url -> row
    jobs,         \* analysis_jobs table: job id -> row
    njobs,        \* number of job rows created
    pc,           \* per task: the statement of analyze_repository it is at
    after,        \* per task: the tasks queued before it by the same request
    order,        \* per task: the order computed by _toposort
    idx,          \* per task: number of nodes of order already run
    nodeStatus,   \* per task: Node.status of every node
    exc,          \* per task: message of the exception being handled
    result,       \* per task: how analyze_repository ended
    workdir,      \* per task: the directory made by clone_repo
    tech_stack,   \* tech_stack table: per project, the tasks whose rows it holds
    issues,       \* issues table, likewise
    team_members, \* team_members table, likewise
    warned,       \* per task: the child writes whose failure the save has reported
    cache,        \* the keys the cache holds an entry for
    cacheClient,  \* RedisCache._client is connected
    setRot,       \* the iteration order of string sets in this process
    faults,       \* store calls that have raised
    faultBudget,  \* store calls that may raise in this behaviour
    report,       \* DataMapper: the report (or the part of it) being mapped
    mapped,       \* DataMapper: the result of the mapping
    nreq,         \* submission requests handled
    lastReq       \* the last request and its response code

vars ==
    <<projects, jobs, njobs, pc, after, order, idx, nodeStatus, exc, result, workdir,
      tech_stack, issues, team_members, warned, cache, cacheClient, setRot, faults, faultBudget,
      nreq, lastReq, report, mapped>>

dataVars == <<report, mapped>>

\* The store, the tasks and the cache: everything DataMapper's pure
\* functions leave alone.
lifecycleVars ==
    <<projects, jobs, njobs, pc, after, order, idx, nodeStatus, exc, result, workdir,
      tech_stack, issues, team_members, warned, cache, cacheClient, setRot, faults,
      faultBudget, nreq, lastReq>>

childTables == <<tech_stack, issues, team_members>>

cacheVars == <<cache, cacheClient>>

\* The three child tables without a row.
NoRows == [u \in Urls |-> {}]

InitStore ==
    /\ projects = [u \in Urls |-> NoProject]
    /\ jobs = [j \in JobIds |-> NoJobRow]
    /\ njobs = 0
    /\ pc = [j \in JobIds |-> "idle"]
    /\ after = [j \in JobIds |-> {}]
    /\ order = [j \in JobIds |-> <<>>]
    /\ idx = [j \in JobIds |-> 0]
    /\ nodeStatus = [j \in JobIds |-> [n \in Nodes |-> "PENDING"]]
    /\ exc = [j \in JobIds |-> "-"]
    /\ result = [j \in JobIds |-> "none"]
    /\ workdir = [j \in JobIds |-> "none"]
    /\ tech_stack = NoRows
    /\ issues = NoRows
    /\ team_members = NoRows
    /\ warned = [j \in JobIds |-> {}]
    /\ cache = {}
    /\ cacheClient = FALSE
    /\ setRot \in 0..MaxRot
    /\ faults = 0
    /\ faultBudget = MaxFaults
    /\ nreq = 0
    /\ lastReq = [op |-> "-", url |-> "-", code |-> 0]

\* No mapping in progress.
NoData == report = <<>> /\ mapped = <<>>

Init == InitStore /\ NoData

\* The outcomes of one store call: it returns, or (while the fault budget
\* lasts) it raises.
StoreOutcomes == IF faults < faultBudget THEN {TRUE, FALSE} ELSE {TRUE}

Charge(ok) == faults' = IF ok THEN faults ELSE faults + 1

\* ------------------------------------------------------------- handlers
\* The store calls of a submission that may raise.
FaultPoints == {"none", "get_project_by_url", "create_project", "create_job"}

\* The body of analyze_repo's try block (and of one CSV row of batch_upload,
\* which repeats it) on the store state st, for repository u.  faultAt is the
\* store call that raises; st.queued holds the tasks the request has queued.
\* code: 202 accepted, 409 conflict, 500 a store call raised.
Submission(st, u, faultAt) ==
    LET existing == st.projects[u]
        isNew == existing.status = "absent"
        created == IF isNew THEN [st.projects EXCEPT ![u] = create_project] ELSE st.projects
        j == st.njobs + 1
    IN IF faultAt = "get_project_by_url"
       THEN [st EXCEPT !.code = 500, !.raised = @ + 1]
       ELSE IF existing.status \in {"analyzing", "completed"}
       THEN [st EXCEPT !.code = 409]
       ELSE IF isNew /\ faultAt = "create_project"
       THEN [st EXCEPT !.code = 500, !.raised = @ + 1]
       ELSE IF faultAt = "create_job"
       THEN [st EXCEPT !.projects = created, !.code = 500, !.raised = @ + 1]
       ELSE IF j > MaxJobs
       THEN [st EXCEPT !.full = TRUE]
       ELSE [st EXCEPT !.projects = created,
                       !.jobs = [st.jobs EXCEPT ![j] = create_job(u)],
                       !.njobs = j,
                       !.pc = [st.pc EXCEPT ![j] = TrySteps[1]],
                       !.after = [st.after EXCEPT ![j] = st.queued],
                       !.queued = @ \cup {j},
                       !.code = 202]

\* The store before any request.
EmptyStore ==
    [projects |-> [u \in Urls |-> NoProject], jobs |-> [j \in JobIds |-> NoJobRow],
     njobs |-> 0, pc |-> [j \in JobIds |-> "idle"], after |-> [j \in JobIds |-> {}],
     queued |-> {}, code |-> 0, raised |-> 0, full |-> FALSE]

StoreView ==
    [projects |-> projects, jobs |-> jobs, njobs |-> njobs, pc |-> pc, after |-> after,
     queued |-> {}, code |-> 0, raised |-> 0, full |-> FALSE]

Commit(st) ==
    /\ ~st.full
    /\ faults + st.raised <= faultBudget
    /\ projects' = st.projects
    /\ jobs' = st.jobs
    /\ njobs' = st.njobs
    /\ pc' = st.pc
    /\ after' = st.after
    /\ faults' = faults + st.raised
    /\ nreq' = nreq + 1
    /\ UNCHANGED <<order, idx, nodeStatus, exc, result, workdir, setRot, childTables, warned,
                   cacheVars, faultBudget, dataVars>>

\* POST /api/analyze-repo.  The request's BackgroundTasks holds one task.
analyze_repo(u) ==
    /\ nreq < MaxSubmits
    /\ \E faultAt \in FaultPoints :
          LET st == Submission(StoreView, u, faultAt)
          IN /\ Commit(st)
             /\ lastReq' = [op |-> "analyze", url |-> u, code |-> st.code]

\* The row loop of batch_upload.  A row without a github.com URL is reported
\* and skipped; every other row is a submission, and a store call that
\* raises only fails its row.  The tasks of one request run one after the
\* other, in the order they were added.
RECURSIVE BatchRows(_, _, _, _, _)
BatchRows(st, rows, k, faultRow, faultAt) ==
    IF k > Len(rows) THEN st
    ELSE LET u == rows[k]
             f == IF k = faultRow THEN faultAt ELSE "none"
             st2 == IF u = "invalid" THEN st ELSE Submission(st, u, f)
         IN BatchRows(st2, rows, k + 1, faultRow, faultAt)

RowInputs == Urls \cup {"invalid"}

\* POST /api/batch-upload
batch_upload ==
    /\ nreq < MaxSubmits
    /\ \E n \in 1..MaxRows : \E rows \in [1..n -> RowInputs] :
       \E faultRow \in 0..n : \E faultAt \in FaultPoints :
          LET st == BatchRows(StoreView, rows, 1, faultRow, faultAt)
          IN /\ (faultRow = 0) = (faultAt = "none")
             /\ Commit(st)
             /\ lastReq' = [op |-> "batch", url |-> "batch", code |-> 200]

\* ------------------------------------------------- the background task
\* BackgroundTasks runs the tasks of one request one after the other: a task
\* starts when the tasks queued before it by its request are done.
MayRun(j) == \A k \in after[j] : pc[k] = "done"

\* The local repo_path of analyze_repository: set to None before the try
\* block and assigned nowhere else (the pipeline's ctx["repo_path"] is not
\* read back).
repo_path == "None"

\* The finally clause: `if repo_path and os.path.exists(repo_path):
\* cleanup_repo(repo_path)`, on the directory state d of the task.
finally(d) == IF repo_path # "None" /\ d = "exists" THEN "deleted" ELSE d

\* The except clause of analyze_repository is entered with message msg.
Raise(j, msg) ==
    /\ pc' = [pc EXCEPT ![j] = "except"]
    /\ exc' = [exc EXCEPT ![j] = msg]

\* The statement s of the try block has finished without raising; after the
\* last one the function returns through the finally clause.
Advance(j, s) ==
    /\ pc' = [pc EXCEPT ![j] = NextStep(s)]
    /\ result' = [result EXCEPT ![j] = IF NextStep(s) = "done" THEN "returned" ELSE @]
    /\ workdir' = [workdir EXCEPT ![j] = IF NextStep(s) = "done" THEN finally(@) ELSE @]

\* ProgressTracker.update(stage, custom_progress): a store call that raises
\* is reported and swallowed, and the row keeps its values.
tracker_update(j, stage, progress, ok) ==
    jobs' = [jobs EXCEPT ![j] = IF ok THEN update_job_progress(@, progress, stage) ELSE @]

\* ProjectCRUD.update_project_status(project_id, "analyzing")
SetAnalyzing(j) ==
    /\ pc[j] = "set_analyzing"
    /\ MayRun(j)
    /\ \E ok \in StoreOutcomes :
          /\ Charge(ok)
          /\ IF ok
             THEN /\ projects' = [projects EXCEPT ![jobs[j].project] =
                                     update_project_status(@, "analyzing")]
                  /\ Advance(j, "set_analyzing")
                  /\ UNCHANGED exc
             ELSE /\ Raise(j, "update_project")
                  /\ UNCHANGED <<projects, result, workdir>>
    /\ UNCHANGED <<jobs, njobs, after, order, idx, nodeStatus, setRot, nreq, lastReq,
                   childTables, warned, cacheVars, faultBudget, dataVars>>

\* tracker.update("starting")
UpdateStarting(j) ==
    /\ pc[j] = "starting"
    /\ \E ok \in StoreOutcomes :
          /\ Charge(ok)
          /\ tracker_update(j, "starting", STAGE_PROGRESS("starting"), ok)
    /\ Advance(j, "starting")
    /\ UNCHANGED <<projects, njobs, after, order, idx, nodeStatus, exc, setRot, nreq, lastReq,
                   childTables, warned, cacheVars, faultBudget, dataVars>>

\* build_pipeline up to g.run's `order = self._toposort()`.
BuildPipeline(j) ==
    /\ pc[j] = "pipeline"
    /\ order[j] = <<>>
    /\ order' = [order EXCEPT ![j] = toposort(setRot)]
    /\ UNCHANGED <<projects, jobs, njobs, pc, after, idx, nodeStatus, exc, result, workdir,
                   setRot, faults, nreq, lastReq,
                   childTables, warned, cacheVars, faultBudget, dataVars>>

\* One iteration of g.run's loop: Node.run of the next node of order.  The
\* node function first reports its stage through progress_callback, then does
\* its work, which returns or raises.  clone_repo makes the directory with
\* mkdtemp before it clones into it: when the clone raises, the directory it
\* made is left behind (made), unless mkdtemp itself raised.
RunNode(j) ==
    /\ pc[j] = "pipeline"
    /\ order[j] # <<>>
    /\ idx[j] < Len(order[j])
    /\ LET n == order[j][idx[j] + 1]
           last == idx[j] + 1 = Len(order[j])
       IN /\ \E ok \in StoreOutcomes :
                /\ Charge(ok)
                /\ tracker_update(j, NodeStage(n), NodeProgress(n), ok)
          /\ \E raised \in BOOLEAN : \E made \in BOOLEAN :
                /\ made = (n = "clone") \/ (n = "clone" /\ raised)
                /\ nodeStatus' = [nodeStatus EXCEPT ![j][n] =
                                     IF raised THEN "FAILED" ELSE "SUCCESS"]
                /\ idx' = [idx EXCEPT ![j] = @ + 1]
                /\ LET made_dir == [workdir EXCEPT ![j] = IF made THEN "exists" ELSE @]
                   IN IF raised /\ stop_on_error
                      THEN /\ Raise(j, n)
                           /\ workdir' = made_dir
                           /\ UNCHANGED result
                      ELSE IF last
                      THEN /\ Advance(j, "pipeline")
                           /\ UNCHANGED exc
                      ELSE /\ workdir' = made_dir
                           /\ UNCHANGED <<pc, exc, result>>
    /\ UNCHANGED <<projects, njobs, after, order, setRot, nreq, lastReq,
                   childTables, warned, cacheVars, faultBudget, dataVars>>

\* tracker.update("aggregation", 95)
UpdateAggregation(j) ==
    /\ pc[j] = "agg_update"
    /\ \E ok \in StoreOutcomes :
          /\ Charge(ok)
          /\ tracker_update(j, "aggregation", 95, ok)
    /\ Advance(j, "agg_update")
    /\ UNCHANGED <<projects, njobs, after, order, idx, nodeStatus, exc, setRot, nreq, lastReq,
                   childTables, warned, cacheVars, faultBudget, dataVars>>

\* save_analysis_results: ProjectCRUD.update_project with the report blob.
\* When the call raises, the save goes on to retry without the blob.
SaveProject(j) ==
    /\ pc[j] = "save"
    /\ \E ok \in StoreOutcomes :
          /\ Charge(ok)
          /\ IF ok
             THEN /\ projects' = [projects EXCEPT ![jobs[j].project] =
                                     save_project_data(@, TRUE)]
                  /\ Advance(j, "save")
             ELSE /\ pc' = [pc EXCEPT ![j] = "save_retry"]
                  /\ UNCHANGED <<projects, result, workdir>>
    /\ UNCHANGED <<jobs, njobs, after, order, idx, nodeStatus, exc, setRot, nreq, lastReq,
                   childTables, warned, cacheVars, faultBudget, dataVars>>

\* The retry without report_json.  When it raises too, save_analysis_results
\* returns False and analyze_repository raises.
SaveRetry(j) ==
    /\ pc[j] = "save_retry"
    /\ \E ok \in StoreOutcomes :
          /\ Charge(ok)
          /\ IF ok
             THEN /\ projects' = [projects EXCEPT ![jobs[j].project] =
                                     save_project_data(@, FALSE)]
                  /\ Advance(j, "save")
                  /\ UNCHANGED exc
             ELSE /\ Raise(j, "Failed to save analysis results to database")
                  /\ UNCHANGED <<projects, result, workdir>>
    /\ UNCHANGED <<jobs, njobs, after, order, idx, nodeStatus, setRot, nreq, lastReq,
                   childTables, warned, cacheVars, faultBudget, dataVars>>

\* ------------------------------------------------------------ the cache
\* Cache keys are strings; a key is modelled by the sequence of its parts,
\* the separator ":" being a part, so that a string is a prefix of another
\* exactly when its sequence is.
IsPrefix(a, b) == Len(a) <= Len(b) /\ SubSeq(b, 1, Len(a)) = a

\* f"hackeval:project:{project_id}"
project_key(u) == <<"hackeval", ":", "project", ":", u>>

\* f"hackeval:projects:{status}:{tech}:{sort}:{search}" of the unfiltered query
projects_key == <<"hackeval", ":", "projects", ":", "None", ":", "None", ":", "recent", ":", "None">>

\* f"hackeval:leaderboard:{tech}:{sort}:{search}" of the unfiltered query
leaderboard_key == <<"hackeval", ":", "leaderboard", ":", "None", ":", "total", ":", "None">>

chart_key == <<"hackeval", ":", "leaderboard", ":", "chart">>

stats_key == <<"hackeval", ":", "stats">>

\* RedisCache.delete_pattern: delete the keys matching f"hackeval:{pattern}*".
delete_pattern(c, pattern) ==
    IF ~cacheClient THEN c
    ELSE {k \in c : ~IsPrefix(<<"hackeval", ":">> \o pattern, k)}

\* RedisCache.invalidate_project
invalidate_project(c, u) ==
    delete_pattern(
       delete_pattern(
          delete_pattern(
             delete_pattern(c, <<"project", ":", u>>),
             <<"projects", ":">>),
          <<"leaderboard", ":">>),
       <<"stats", ":">>)

\* ------------------------------------- save_analysis_results, steps 2 to 5
\* TechStackCRUD.add_technologies / IssueCRUD.add_issues /
\* TeamMemberCRUD.add_members: the rows of task j are inserted for project u.
add_rows(rows, u, j) == [rows EXCEPT ![u] = @ \cup {j}]

\* A child write that raises, rethrown to the outer handler of
\* save_analysis_results.
child_except_propagates(j, s) ==
    /\ Raise(j, "Failed to save analysis results to database")
    /\ UNCHANGED <<result, workdir>>

\* `except Exception as e: print(...)` around each child write: the save
\* goes on with its next step.
child_except(j, s) ==
    /\ Advance(j, s)
    /\ UNCHANGED exc

\* 2. Save tech stack: nothing is written when the mapped list is empty.
SaveTechStack(j) ==
    /\ pc[j] = "save_tech"
    /\ \E nonempty \in BOOLEAN : \E ok \in (IF nonempty THEN StoreOutcomes ELSE {TRUE}) :
          /\ Charge(ok)
          /\ tech_stack' = IF nonempty /\ ok THEN add_rows(tech_stack, jobs[j].project, j)
                                           ELSE tech_stack
          /\ IF ok THEN Advance(j, "save_tech") /\ UNCHANGED exc
                   ELSE child_except(j, "save_tech")
          /\ warned' = [warned EXCEPT ![j] = IF ok THEN @ ELSE @ \cup {"save_tech"}]
    /\ UNCHANGED <<projects, jobs, njobs, after, order, idx, nodeStatus, issues, team_members,
                   cacheVars, faultBudget, setRot, nreq, lastReq, dataVars>>

\* 3. Save issues
SaveIssues(j) ==
    /\ pc[j] = "save_issues"
    /\ \E nonempty \in BOOLEAN : \E ok \in (IF nonempty THEN StoreOutcomes ELSE {TRUE}) :
          /\ Charge(ok)
          /\ issues' = IF nonempty /\ ok THEN add_rows(issues, jobs[j].project, j) ELSE issues
          /\ IF ok THEN Advance(j, "save_issues") /\ UNCHANGED exc
                   ELSE child_except(j, "save_issues")
          /\ warned' = [warned EXCEPT ![j] = IF ok THEN @ ELSE @ \cup {"save_issues"}]
    /\ UNCHANGED <<projects, jobs, njobs, after, order, idx, nodeStatus, tech_stack,
                   team_members, cacheVars, faultBudget, setRot, nreq, lastReq, dataVars>>

\* 4. Save team members
SaveTeamMembers(j) ==
    /\ pc[j] = "save_team"
    /\ \E nonempty \in BOOLEAN : \E ok \in (IF nonempty THEN StoreOutcomes ELSE {TRUE}) :
          /\ Charge(ok)
          /\ team_members' = IF nonempty /\ ok
                                THEN add_rows(team_members, jobs[j].project, j)
                                ELSE team_members
          /\ IF ok THEN Advance(j, "save_team") /\ UNCHANGED exc
                   ELSE child_except(j, "save_team")
          /\ warned' = [warned EXCEPT ![j] = IF ok THEN @ ELSE @ \cup {"save_team"}]
    /\ UNCHANGED <<projects, jobs, njobs, after, order, idx, nodeStatus, tech_stack, issues,
                   cacheVars, faultBudget, setRot, nreq, lastReq, dataVars>>

\* 5. Invalidate cache for this project, then `return True`.
Invalidate(j) ==
    /\ pc[j] = "invalidate"
    /\ cache' = invalidate_project(cache, jobs[j].project)
    /\ Advance(j, "invalidate")
    /\ UNCHANGED <<projects, jobs, njobs, after, order, idx, nodeStatus, exc, childTables, warned,
                   cacheClient, faultBudget, setRot, faults, nreq, lastReq, dataVars>>

\* tracker.complete(): a store call that raises is reported and swallowed.
Complete(j) ==
    /\ pc[j] = "complete"
    /\ \E ok \in StoreOutcomes :
          /\ Charge(ok)
          /\ jobs' = [jobs EXCEPT ![j] = IF ok THEN complete_job(@) ELSE @]
    /\ Advance(j, "complete")
    /\ UNCHANGED <<projects, njobs, after, order, idx, nodeStatus, exc, setRot, nreq, lastReq,
                   childTables, warned, cacheVars, faultBudget, dataVars>>

\* except: tracker.fail(error_msg); a store call that raises is swallowed.
Fail(j) ==
    /\ pc[j] = "except"
    /\ \E ok \in StoreOutcomes :
          /\ Charge(ok)
          /\ jobs' = [jobs EXCEPT ![j] = IF ok THEN fail_job(@, exc[j]) ELSE @]
    /\ pc' = [pc EXCEPT ![j] = "fail_project"]
    /\ UNCHANGED <<projects, njobs, after, order, idx, nodeStatus, exc, result, workdir,
                   setRot, nreq, lastReq,
                   childTables, warned, cacheVars, faultBudget, dataVars>>

\* except: ProjectCRUD.update_project_status(project_id, "failed"), then
\* `raise` through the finally clause (also when the status write itself
\* raised); run_analysis_job catches whatever analyze_repository raises.
FailProject(j) ==
    /\ pc[j] = "fail_project"
    /\ \E ok \in StoreOutcomes :
          /\ Charge(ok)
          /\ projects' = [projects EXCEPT ![jobs[j].project] =
                             IF ok THEN update_project_status(@, "failed") ELSE @]
    /\ pc' = [pc EXCEPT ![j] = "done"]
    /\ result' = [result EXCEPT ![j] = "raised"]
    /\ workdir' = [workdir EXCEPT ![j] = finally(@)]
    /\ UNCHANGED <<jobs, njobs, after, order, idx, nodeStatus, exc, setRot, nreq, lastReq,
                   childTables, warned, cacheVars, faultBudget, dataVars>>

Next ==
    \/ \E u \in Urls : analyze_repo(u)
    \/ batch_upload
    \/ \E j \in JobIds : SetAnalyzing(j)
    \/ \E j \in JobIds : UpdateStarting(j)
    \/ \E j \in JobIds : BuildPipeline(j)
    \/ \E j \in JobIds : RunNode(j)
    \/ \E j \in JobIds : UpdateAggregation(j)
    \/ \E j \in JobIds : SaveProject(j)
    \/ \E j \in JobIds : SaveRetry(j)
    \/ \E j \in JobIds : SaveTechStack(j)
    \/ \E j \in JobIds : SaveIssues(j)
    \/ \E j \in JobIds : SaveTeamMembers(j)
    \/ \E j \in JobIds : Invalidate(j)
    \/ \E j \in JobIds : Complete(j)
    \/ \E j \in JobIds : Fail(j)
    \/ \E j \in JobIds : FailProject(j)

Spec == Init /\ [][Next]_vars

\* ---------------------------------------------------------- one job run
\* The run of one background task: the state right after a submission for
\* u was accepted (a new project, or one whose last analysis failed), and
\* the steps of that task alone.
AcceptedRun ==
    \E u \in Urls : \E before \in {"absent", "failed"} :
       LET st == Submission([EmptyStore EXCEPT
                                !.projects[u] = IF before = "failed"
                                                THEN update_project_status(create_project, "failed")
                                                ELSE NoProject],
                            u, "none")
       IN /\ projects = st.projects
          /\ jobs = st.jobs
          /\ njobs = st.njobs
          /\ pc = st.pc
          /\ after = st.after
          /\ lastReq = [op |-> "analyze", url |-> u, code |-> st.code]
          /\ nreq = 1
          /\ order = [j \in JobIds |-> <<>>]
          /\ idx = [j \in JobIds |-> 0]
          /\ nodeStatus = [j \in JobIds |-> [n \in Nodes |-> "PENDING"]]
          /\ exc = [j \in JobIds |-> "-"]
          /\ result = [j \in JobIds |-> "none"]
          /\ workdir = [j \in JobIds |-> "none"]
          /\ tech_stack = NoRows
          /\ issues = NoRows
          /\ team_members = NoRows
          /\ warned = [j \in JobIds |-> {}]
          /\ cache = {}
          /\ setRot \in 0..MaxRot
          /\ faults = 0
          /\ faultBudget = MaxRunFaults
          /\ NoData

\* The run of one task with caching disabled (REDIS_URL not set).
InitRun == AcceptedRun /\ cacheClient = FALSE

NextRun ==
    \/ \E j \in JobIds : SetAnalyzing(j)
    \/ \E j \in JobIds : UpdateStarting(j)
    \/ \E j \in JobIds : BuildPipeline(j)
    \/ \E j \in JobIds : RunNode(j)
    \/ \E j \in JobIds : UpdateAggregation(j)
    \/ \E j \in JobIds : SaveProject(j)
    \/ \E j \in JobIds : SaveRetry(j)
    \/ \E j \in JobIds : SaveTechStack(j)
    \/ \E j \in JobIds : SaveIssues(j)
    \/ \E j \in JobIds : SaveTeamMembers(j)
    \/ \E j \in JobIds : Invalidate(j)
    \/ \E j \in JobIds : Complete(j)
    \/ \E j \in JobIds : Fail(j)
    \/ \E j \in JobIds : FailProject(j)

SpecRun == InitRun /\ [][NextRun]_vars

\* The background task is scheduled until it has left analyze_repository:
\* FastAPI runs a started background task to its end, and every store call
\* and every pipeline node returns or raises.
SpecRunFair == SpecRun /\ WF_vars(NextRun)

\* ------------------------------------------- read and delete endpoints
\* cache.set(key, ...): without a client nothing is stored.
cache_set(c, k) == IF cacheClient THEN c \cup {k} ELSE c

\* GET /api/projects/{project_id}: a cached entry is returned as it is;
\* otherwise the response is built from the store and cached when the
\* project is completed (404 for a missing project).
get_project_detail(u) ==
    /\ project_key(u) \notin cache
    /\ projects[u].status = "completed"
    /\ cache' = cache_set(cache, project_key(u))
    /\ UNCHANGED <<projects, jobs, njobs, pc, after, order, idx, nodeStatus, exc, result,
                   workdir, childTables, warned, cacheClient, faultBudget, setRot, faults,
                   nreq, lastReq, dataVars>>

\* The body shared by the unfiltered GET /api/projects, /api/leaderboard,
\* /api/leaderboard/chart and /api/stats: on a cache miss the response is
\* computed from the store and cached under key k.
cached_read(k) ==
    /\ k \notin cache
    /\ cache' = cache_set(cache, k)
    /\ UNCHANGED <<projects, jobs, njobs, pc, after, order, idx, nodeStatus, exc, result,
                   workdir, childTables, warned, cacheClient, faultBudget, setRot, faults,
                   nreq, lastReq, dataVars>>

list_projects == cached_read(projects_key)

get_leaderboard == cached_read(leaderboard_key)

get_leaderboard_chart == cached_read(chart_key)

get_dashboard_stats == cached_read(stats_key)

\* setex(key, ttl, ...): an entry disappears when its time to live is over.
expire ==
    /\ \E k \in cache : cache' = cache \ {k}
    /\ UNCHANGED <<projects, jobs, njobs, pc, after, order, idx, nodeStatus, exc, result,
                   workdir, childTables, warned, cacheClient, faultBudget, setRot, faults,
                   nreq, lastReq, dataVars>>

\* DELETE /api/projects/{project_id}.  The handler's first statement calls
\* TechStackCRUD.delete_by_project, which crud.py does not define (nor the
\* two calls after it): it raises AttributeError, and `except Exception`
\* answers 500 before any row is deleted.
delete_project(u) ==
    /\ lastReq' = [op |-> "delete", url |-> u, code |-> 500]
    /\ UNCHANGED <<projects, jobs, njobs, pc, after, order, idx, nodeStatus, exc, result,
                   workdir, childTables, warned, cacheVars, faultBudget, setRot, faults, nreq, dataVars>>

\* One task run with the cache connected or not, the read endpoints and the
\* delete endpoint.
InitApi == AcceptedRun /\ cacheClient \in BOOLEAN

NextApi ==
    \/ NextRun
    \/ \E u \in Urls : get_project_detail(u)
    \/ list_projects
    \/ get_leaderboard
    \/ get_leaderboard_chart
    \/ get_dashboard_stats
    \/ expire
    \/ \E u \in Urls : delete_project(u)

SpecApi == InitApi /\ [][NextApi]_vars

\* ------------------------------------------------- DataMapper: scores
\* Scores are decimal numbers; the model writes a score as the integer
\* number of its hundredths (33.33 is 3333).  A value of a dict is <<>> for
\* None and <<x>> for the number x.
None == <<>>

\* The keys of `weights`, in the order of the dict literal.  The key k of a
\* mapped dict stands for the column f"{k}_score".
ScoreKeys ==
    <<"originality", "quality", "security", "effort", "implementation", "engineering",
      "organization", "documentation">>

ScoreKeySet == {ScoreKeys[i] : i \in 1..Len(ScoreKeys)}

\* weights with implementation and originality exchanged.
weights_swapped ==
    [originality |-> 25, quality |-> 15, security |-> 10, effort |-> 10,
     implementation |-> 20, engineering |-> 10, organization |-> 5, documentation |-> 5]

\* calculate_total_score: weights, in hundredths (0.20 is 20).
weights ==
    [originality |-> 20, quality |-> 15, security |-> 10, effort |-> 10,
     implementation |-> 25, engineering |-> 10, organization |-> 5, documentation |-> 5]

\* d.get(k, 0)
get0(d, k) == IF k \in DOMAIN d THEN d[k] ELSE <<0>>

\* `x or 0` for a number or None
or0(x) == IF x = None THEN 0 ELSE x[1]

\* The loop of calculate_total_score over weights.items(): the sum of
\* score * weight, in units of 1/10000.
RECURSIVE weighted_sum(_, _)
weighted_sum(scores, keys) ==
    IF keys = <<>> THEN 0
    ELSE or0(get0(scores, Head(keys))) * weights[Head(keys)] + weighted_sum(scores, Tail(keys))

\* round(total, 2) of the sum n (units of 1/10000), in hundredths.  Python
\* rounds the binary float; where the decimal value lies exactly between two
\* hundredths the float is slightly above or below it, and either neighbour
\* may result.
round2(n) ==
    LET q == n \div 100
        r == n % 100
    IN IF r < 50 THEN {q} ELSE IF r > 50 THEN {q + 1} ELSE {q, q + 1}

\* calculate_total_score: the values it may return.
calculate_total_score(scores) == round2(weighted_sum(scores, ScoreKeys))

\* map_scores: the eight columns read from report["scores"] with
\* .get(key, 0), and the total t computed from them.
map_scores(scores, t) ==
    [k \in ScoreKeySet \cup {"total"} |-> IF k = "total" THEN <<t>> ELSE get0(scores, k)]

\* What the aggregator's clamped expressions and the detectors produce
\* (0 to 100), and what the judge's JSON may hold under implementation_score
\* (json.loads of the model's answer, used as it is).
DetectorScores == {<<0>>, <<3333>>, <<10000>>}

JudgeScores == {None, <<-2500>>, <<0>>, <<3333>>, <<10000>>, <<50000>>}

\* The report["scores"] dicts handed to map_scores: the eight keys of
\* node_aggregator, and dicts without the documentation key.
ScoreReports ==
    {[k \in ScoreKeySet |-> IF k = "implementation" THEN ji
                            ELSE IF k = "documentation" THEN dc
                            ELSE IF k \in {"originality", "quality"} THEN a
                            ELSE IF k \in {"security", "effort"} THEN b
                            ELSE c] :
        ji \in JudgeScores, dc \in DetectorScores, a \in DetectorScores,
        b \in DetectorScores, c \in DetectorScores}
    \cup
    {[k \in ScoreKeySet \ {"documentation"} |-> IF k = "implementation" THEN ji
                                                 ELSE IF k = "quality" THEN a
                                                 ELSE <<10000>>] :
        ji \in JudgeScores, a \in DetectorScores \cup {None}}

\* scores = DataMapper.map_scores(report)
MapScores ==
    /\ report # <<>>
    /\ mapped = <<>>
    /\ \E t \in calculate_total_score(map_scores(report, 0)) :
          mapped' = map_scores(report, t)
    /\ UNCHANGED <<report, lifecycleVars>>

InitScores == InitStore /\ report \in ScoreReports /\ mapped = <<>>

NextScores == MapScores

SpecScores == InitScores /\ [][NextScores]_vars

\* ------------------------------------------- DataMapper: team members
\* report["team"] is author_stats: author -> {"commits": n, ...}.  Authors
\* with the same number of commits get the same percentage, so a team is
\* given by the number of authors having each number of commits.
CommitCounts == {1, 2}

RECURSIVE SumOver(_, _)
SumOver(f, S) ==
    IF S = {} THEN 0
    ELSE LET c == CHOOSE x \in S : TRUE IN f[c] + SumOver(f, S \ {c})

\* len(members)
members(team) == SumOver(team, DOMAIN team)

\* total_commits = sum(m["commits"] for m in members)
total_commits(team) == SumOver([c \in DOMAIN team |-> c * team[c]], DOMAIN team)

\* analyze_commits counts every commit of raw_commits for its author: an
\* author has at least one commit.
Teams == {t \in [CommitCounts -> 0..MaxAuthors] : members(t) <= MaxAuthors}

\* round((commits / total_commits) * 100, 2), in hundredths; up tells where
\* a value exactly between two hundredths goes.
contribution_pct(commits, total, up) ==
    LET n == commits * 10000
        q == n \div total
        r == n % total
    IN IF 2 * r < total THEN q
       ELSE IF 2 * r > total THEN q + 1
       ELSE IF up THEN q + 1 ELSE q

\* map_team_members: the contribution_pct of the authors with c commits
\* (None while total_commits is 0).
map_team_members(team, up) ==
    [c \in DOMAIN team |->
        IF total_commits(team) > 0
        THEN <<contribution_pct(c, total_commits(team), up)>>
        ELSE None]

\* team_members = DataMapper.map_team_members(report)
MapTeamMembers ==
    /\ report # <<>>
    /\ mapped = <<>>
    /\ \E up \in BOOLEAN : mapped' = map_team_members(report, up)
    /\ UNCHANGED <<report, lifecycleVars>>

InitTeam == InitStore /\ report \in Teams /\ mapped = <<>>

NextTeam == MapTeamMembers

SpecTeam == InitTeam /\ [][NextTeam]_vars

\* ------------------------------------------------ winnowing fingerprints
\* Tokens are small integers; a token list has at most MaxTokens tokens.
\* Similarities are in hundredths (1.0 is 100), rounded down.
MaxTokens == 9
TokenLists == UNION {[1..n -> {1, 2}] : n \in 0..MaxTokens}

\* the defaults k = 5 and w = 4 of winnow_hashes and preprocess_file
winnow_k == 5
winnow_window == 4

\* for i in range(len(tokens) - k + 1): tokens[i:i+k]
kgrams(tokens, kk) ==
    [i \in 1..(IF Len(tokens) >= kk THEN Len(tokens) - kk + 1 ELSE 0) |->
        SubSeq(tokens, i, i + kk - 1)]

\* " ".join(kg) read as a number: one digit per token
RECURSIVE JoinCode(_)
JoinCode(kg) == IF kg = <<>> THEN 0 ELSE Head(kg) + 4 * JoinCode(Tail(kg))

\* int(hashlib.sha1(...).hexdigest()[:16], 16): a fixed scrambling of the
\* k-gram, equal k-grams get equal hashes.
sha1_16(kg) == (JoinCode(kg) * 389) % 1021

\* the list of (hash, position), positions from 0
kgram_hashes(tokens, kk) ==
    [i \in DOMAIN kgrams(tokens, kk) |-> <<sha1_16(kgrams(tokens, kk)[i]), i - 1>>]

\* min(window, key=lambda x: (x[0], -x[1])): smallest hash, rightmost on ties
min_rightmost(window) ==
    CHOOSE x \in {window[i] : i \in DOMAIN window} :
       \A y \in {window[i] : i \in DOMAIN window} :
          x[1] < y[1] \/ (x[1] = y[1] /\ x[2] >= y[2])

\* range(len(khashes) - w): a loop that stops one window early
window_starts_short(n, ww) == 0..(n - ww - 1)

\* range(len(khashes) - w + 1)
window_starts(n, ww) == 0..(n - ww)

\* the loop of winnow_hashes from window i on, `selected` so far
RECURSIVE winnow_loop(_, _, _, _)
winnow_loop(khashes, ww, i, selected) ==
    IF i \notin window_starts(Len(khashes), ww) THEN selected
    ELSE winnow_loop(khashes, ww, i + 1,
                     selected \cup {min_rightmost(SubSeq(khashes, i + 1, i + ww))[1]})

winnow_hashes(tokens, kk, ww) ==
    LET khashes == kgram_hashes(tokens, kk)
    IN IF Len(khashes) = 0 THEN {} ELSE winnow_loop(khashes, ww, 0, {})

jaccard_fingerprint(f1, f2) ==
    IF f1 = {} /\ f2 = {} THEN 0
    ELSE LET inter == Cardinality(f1 \cap f2)
             uni == Cardinality(f1 \cup f2)
         IN IF uni # 0 THEN (inter * 100) \div uni ELSE 0

\* Two files with the token lists report[1] and report[2] are fingerprinted
\* and compared.
CompareFingerprints ==
    /\ mapped = <<>>
    /\ LET fa == winnow_hashes(report[1], winnow_k, winnow_window)
           fb == winnow_hashes(report[2], winnow_k, winnow_window)
       IN mapped' = <<[fingerprint_a |-> fa, fingerprint_b |-> fb,
                       token_similarity |-> jaccard_fingerprint(fa, fb)]>>
    /\ UNCHANGED <<report, lifecycleVars>>

\* two files with the same token list
InitWinnow ==
    /\ InitStore
    /\ setRot = 0
    /\ report \in {<<t, t>> : t \in TokenLists}
    /\ mapped = <<>>

NextWinnow == CompareFingerprints

SpecWinnow == InitWinnow /\ [][NextWinnow]_vars

\* ------------------------------- forensic node, aggregator and issue mapper
\* The pipeline context ctx is a function from the keys present to their
\* values; it is held in `report` while the nodes run.  Scores and
\* percentages are in hundredths (0.3 is 30, 18.0 is 1800).
MaxPool == 2
MaxLeaks == 2

\* d.get(key, default)
dict_get(d, key, default) == IF key \in DOMAIN d THEN d[key] ELSE default

EmptyDict == <<>>

\* the path "" that a missing match defaults to
EmptyPath == <<"", "">>

\* os.path.join(root, f): a directory and a file name
Paths == {<<d, "main.js">> : d \in 1..MaxPool}

\* os.path.basename
basename(path) == path[2]

\* File contents are "c1", "c2" and "brief", by name: len(content) and
\* content.split() of each.
len(content) == IF content = "brief" THEN 100 ELSE 240

split(content) ==
    IF content = "c2" THEN <<2, 2, 1, 2, 1, 1, 1, 2, 2>>
    ELSE IF content = "c1" THEN <<1, 2, 1, 1, 2, 2, 1, 2, 1>>
    ELSE <<1, 2>>

\* the score llm_origin_ensemble gives a file (it depends on the providers)
LlmScores == {0, 20, 30, 90}

\* the source files of a cloned working tree
Repos ==
    UNION {[P -> [content : {"c1", "c2", "brief"}, llm : LlmScores]] : P \in SUBSET Paths}

\* files whose content is longer than 100 characters
file_contents(repo) ==
    [f \in {g \in DOMAIN repo : len(repo[g].content) > 100} |->
        [content |-> repo[f].content, tokens |-> split(repo[f].content)]]

\* sorted(keys, key=len(content), reverse=True)[:n], as a set
top_n(fc, n) ==
    IF Cardinality(DOMAIN fc) <= n THEN DOMAIN fc
    ELSE CHOOSE T \in SUBSET DOMAIN fc :
            /\ Cardinality(T) = n
            /\ \A x \in T : \A y \in (DOMAIN fc) \ T :
                  len(fc[x].content) >= len(fc[y].content)

\* The entries of file_contents carry neither ast_types nor lang, so
\* ast_similarity is never called and ast_sim keeps its initial 0.0.
algorithmic_similarity(file_a, file_b) ==
    LET fp_a == dict_get(file_a, "fingerprint", {})
        fp_b == dict_get(file_b, "fingerprint", {})
        token_sim == jaccard_fingerprint(fp_a, fp_b)
        ast_sim == 0
        python(x) == "lang" \in DOMAIN x /\ x.lang = "python"
        combined == IF python(file_a) /\ python(file_b)
                    THEN (60 * ast_sim + 40 * token_sim) \div 100
                    ELSE token_sim
    IN [score |-> combined,
        evidence |-> [token_similarity |-> token_sim, ast_similarity |-> ast_sim]]

\* the inner loop over f_b: the best score above 0.0 and the file that has it
best_match(fc, pool, f_a) ==
    LET others == pool \ {f_a}
        sim(f_b) == algorithmic_similarity(fc[f_a], fc[f_b]).score
        best_score == IF \E f_b \in others : sim(f_b) > 0
                      THEN CHOOSE s \in {sim(f_b) : f_b \in others} :
                              \A f_b \in others : s >= sim(f_b)
                      ELSE 0
    IN [score |-> best_score,
        match |-> IF best_score > 0
                  THEN CHOOSE f_b \in others : sim(f_b) = best_score
                  ELSE None]

node_forensic_analysis(ctx) ==
    LET fc == file_contents(ctx.repo_path)
        target_files == top_n(fc, 15)
        pool == top_n(fc, 20)
    IN [llm_data |-> [f \in target_files |-> ctx.repo_path[f].llm],
        plag_data |-> [f \in pool |-> best_match(fc, pool, f)]]

\* ---- node_aggregator
all_files(ctx) ==
    DOMAIN dict_get(ctx, "llm_data", EmptyDict) \cup DOMAIN dict_get(ctx, "plag_data", EmptyDict)

s_ai(ctx, fpath) == dict_get(dict_get(ctx, "llm_data", EmptyDict), fpath, 0)

s_plag(ctx, fpath) ==
    dict_get(dict_get(dict_get(ctx, "plag_data", EmptyDict), fpath, EmptyDict), "score", 0)

\* ((s_ai * 0.6) + (s_plag * 0.4)) * 100
risk(ctx, fpath) == 60 * s_ai(ctx, fpath) + 40 * s_plag(ctx, fpath)

\* if risk > 15
retained(ctx) == {fpath \in all_files(ctx) : risk(ctx, fpath) > 1500}

\* plag.get(fpath, {}).get("match", "")
match_of(ctx, fpath) ==
    dict_get(dict_get(dict_get(ctx, "plag_data", EmptyDict), fpath, EmptyDict),
             "match", EmptyPath)

\* os.path.basename(None) raises TypeError
aggregator_raises(ctx) == \E fpath \in retained(ctx) : Len(match_of(ctx, fpath)) = 0

\* detailed_files.sort(key=risk, reverse=True), as the list of paths
RECURSIVE sorted_by_risk(_, _)
sorted_by_risk(ctx, S) ==
    IF S = {} THEN <<>>
    ELSE LET top == CHOOSE f \in S : \A g \in S : risk(ctx, f) >= risk(ctx, g)
         IN <<top>> \o sorted_by_risk(ctx, S \ {top})

detailed_files(ctx) ==
    LET paths == sorted_by_risk(ctx, retained(ctx))
    IN [i \in DOMAIN paths |->
          [name |-> basename(paths[i]),
           ai_pct |-> s_ai(ctx, paths[i]) * 100,
           plag_pct |-> s_plag(ctx, paths[i]) * 100,
           risk |-> risk(ctx, paths[i]),
           match |-> basename(match_of(ctx, paths[i]))]]

\* max([f['ai_pct'] for f in detailed_files]) if detailed_files else 0.0
top_ai(ctx) ==
    LET files == detailed_files(ctx)
    IN IF Len(files) = 0 THEN 0
       ELSE CHOOSE a \in {files[i].ai_pct : i \in DOMAIN files} :
               \A i \in DOMAIN files : a >= files[i].ai_pct

aggregator_scores(ctx) ==
    LET qual == dict_get(ctx, "quality_metrics", EmptyDict)
        comm == dict_get(ctx, "commit_analysis", EmptyDict)
        sec == dict_get(ctx, "security_report", EmptyDict)
        judge == dict_get(ctx, "ai_judgment", EmptyDict)
        mat == dict_get(ctx, "maturity", EmptyDict)
        struct == dict_get(ctx, "structure", EmptyDict)
        commits == 100 * dict_get(comm, "total_commits", 0)
    IN [originality |-> IF 10000 - top_ai(ctx) > 0 THEN 10000 - top_ai(ctx) ELSE 0,
        quality |-> dict_get(qual, "maintainability_index", 0),
        security |-> dict_get(sec, "score", 10000),
        effort |-> IF commits < 10000 THEN commits ELSE 10000,
        implementation |-> dict_get(judge, "implementation_score", 0),
        engineering |-> dict_get(mat, "score", 0),
        organization |-> dict_get(struct, "organization_score", 0),
        documentation |-> dict_get(qual, "documentation_score", 0)]

final_report(ctx) ==
    LET comm == dict_get(ctx, "commit_analysis", EmptyDict)
    IN [repo |-> dict_get(ctx, "repo_url", None),
        stack |-> dict_get(ctx, "tech_stack", <<>>),
        scores |-> aggregator_scores(ctx),
        team |-> dict_get(comm, "author_stats", EmptyDict),
        total_commits |-> dict_get(comm, "total_commits", 0),
        files |-> detailed_files(ctx),
        security |-> dict_get(ctx, "security_report", EmptyDict),
        judge |-> dict_get(ctx, "ai_judgment", EmptyDict),
        maturity |-> dict_get(ctx, "maturity", EmptyDict),
        commit_details |-> comm,
        structure |-> dict_get(ctx, "structure", EmptyDict),
        repo_tree |-> "tree",
        viz |-> "N/A"]

\* ---- scan_for_secrets: the result for a working tree with `leaks` matches
scan_for_secrets(leaks) ==
    LET security_penalty == IF Len(leaks) * 10 < 80 THEN Len(leaks) * 10 ELSE 80
    IN [score |-> 100 * (IF 100 - security_penalty > 20 THEN 100 - security_penalty ELSE 20),
        leak_count |-> Len(leaks),
        details |-> leaks]

\* ---- DataMapper.map_issues
security_issues(rep) ==
    LET security == dict_get(rep, "security", EmptyDict)
        leaked_keys == dict_get(security, "leaked_keys", <<>>)
    IN [i \in DOMAIN leaked_keys |->
          [type |-> "security", severity |-> "high",
           file_path |-> dict_get(leaked_keys[i], "file", None),
           ai_probability |-> None, plagiarism_score |-> None]]

file_issues(file_info) ==
    LET ai_pct == dict_get(file_info, "ai_pct", 0)
        plag_pct == dict_get(file_info, "plag_pct", 0)
    IN (IF ai_pct > 5000
        THEN <<[type |-> "plagiarism",
                severity |-> IF ai_pct > 8000 THEN "high" ELSE "medium",
                file_path |-> dict_get(file_info, "name", None),
                ai_probability |-> <<ai_pct \div 100>>, plagiarism_score |-> None]>>
        ELSE <<>>)
       \o
       (IF plag_pct > 5000
        THEN <<[type |-> "plagiarism",
                severity |-> IF plag_pct > 8000 THEN "high" ELSE "medium",
                file_path |-> dict_get(file_info, "name", None),
                ai_probability |-> None, plagiarism_score |-> <<plag_pct \div 100>>]>>
        ELSE <<>>)

RECURSIVE files_issues(_)
files_issues(files) ==
    IF Len(files) = 0 THEN <<>>
    ELSE file_issues(files[1]) \o files_issues(SubSeq(files, 2, Len(files)))

quality_issues(rep) ==
    LET quality == dict_get(rep, "quality_metrics", EmptyDict)
        mi == dict_get(quality, "maintainability_index", 10000)
    IN IF mi < 5000
       THEN <<[type |-> "quality",
               severity |-> IF mi > 2000 THEN "medium" ELSE "high",
               file_path |-> None, ai_probability |-> None, plagiarism_score |-> None]>>
       ELSE <<>>

map_issues(rep) ==
    security_issues(rep) \o files_issues(dict_get(rep, "files", <<>>))
       \o quality_issues(rep)

\* ---- the context the forensic node and the aggregator find
Leak == [file |-> "config.js", path |-> "/config.js", line_number |-> 1,
         type |-> "AWS Secret"]

LeakLists == UNION {[1..n -> {Leak}] : n \in 0..MaxLeaks}

\* the context after the eight detector nodes other than forensics; mi is
\* round(avg_mi, 2) of analyze_quality
pipeline_ctx(repo, leaks, mi) ==
    [repo_url |-> <<"u1">>,
     repo_path |-> repo,
     tech_stack |-> <<"JavaScript">>,
     structure |-> [organization_score |-> 7000],
     maturity |-> [score |-> 5000],
     commit_analysis |-> [total_commits |-> 3, author_stats |-> [alice |-> 3]],
     quality_metrics |-> [maintainability_index |-> mi, documentation_score |-> 4000],
     security_report |-> scan_for_secrets(leaks),
     ai_judgment |-> [implementation_score |-> 6000]]

Contexts ==
    {pipeline_ctx(repo, leaks, mi) :
        repo \in Repos, leaks \in LeakLists, mi \in {1500, 2000, 3000, 5000, 7500}}

\* the forensics node: ctx.update(res)
ForensicAnalysis ==
    /\ "llm_data" \notin DOMAIN report
    /\ "final_report" \notin DOMAIN report
    /\ "error" \notin DOMAIN report
    /\ report' = node_forensic_analysis(report) @@ report
    /\ UNCHANGED <<mapped, lifecycleVars>>

\* The aggregator node on the context as it is.  When the node raises, the
\* run stops there (stop_on_error) and no final_report exists; the key
\* "error" stands for Node.error.
Aggregate ==
    /\ "final_report" \notin DOMAIN report
    /\ "error" \notin DOMAIN report
    /\ report' = IF aggregator_raises(report)
                 THEN [error |-> "aggregator"] @@ report
                 ELSE [final_report |-> final_report(report)] @@ report
    /\ UNCHANGED <<mapped, lifecycleVars>>

\* the aggregator runs after the forensics node (edge forensics -> aggregator)
Aggregator ==
    /\ "llm_data" \in DOMAIN report
    /\ Aggregate

\* report = final_report["final_report"]; DataMapper.map_issues(report, id)
MapIssues ==
    /\ "final_report" \in DOMAIN report
    /\ mapped = <<>>
    /\ mapped' = <<map_issues(report.final_report)>>
    /\ UNCHANGED <<report, lifecycleVars>>

InitReport ==
    /\ InitStore
    /\ setRot = 0
    /\ report \in Contexts
    /\ mapped = <<>>

NextReport == ForensicAnalysis \/ Aggregator \/ MapIssues

SpecReport == InitReport /\ [][NextReport]_vars

\* ---- the aggregator alone, on contexts that lack detector outputs
DetectorKeys ==
    {"tech_stack", "structure", "maturity", "commit_analysis", "quality_metrics",
     "security_report", "ai_judgment", "llm_data", "plag_data"}

without(ctx, absent) == [key \in (DOMAIN ctx) \ absent |-> ctx[key]]

PartialContexts ==
    {without(node_forensic_analysis(pipeline_ctx(repo, <<Leak>>, 3000))
                @@ pipeline_ctx(repo, <<Leak>>, 3000), absent) :
        repo \in UNION {[P -> [content : {"c1"}, llm : LlmScores]] :
                           P \in SUBSET {<<1, "main.js">>}},
        absent \in SUBSET DetectorKeys}

InitAggregate ==
    /\ InitStore
    /\ setRot = 0
    /\ report \in PartialContexts
    /\ mapped = <<>>

NextAggregate == Aggregate

SpecAggregate == InitAggregate /\ [][NextAggregate]_vars

\* ------------------------------------------------------ commit forensics
\* A commit has a message, a committer time in seconds and the insertions
\* and deletions summed over its files; its hexsha is its place in the list
\* that iter_commits returns; stats is (insertions, deletions).  Hashes and
\* messages here are shorter than the 7 and 30 characters the suspicious
\* list keeps of them.
MaxCommits == 3

\* str.strip()
strip(message) == IF message = "fix\n" THEN "fix" ELSE message

RawCommits ==
    UNION {[1..n -> [message : {"fix", "fix\n", "wip"},
                     committed_datetime : {0, 10, 300},
                     stats : {<<0, 0>>, <<0, 2>>}]] : n \in 0..MaxCommits}

\* list(repo.iter_commits('--all', max_count=5000))
iter_commits(raw) ==
    [i \in DOMAIN raw |->
        [hexsha |-> i, author |-> "alice", message |-> raw[i].message,
         committed_datetime |-> raw[i].committed_datetime, stats |-> raw[i].stats]]

\* list.sort(key=committed_datetime) is stable: the last commit goes behind
\* every commit that is not later than it
RECURSIVE sort_by_time(_)
sort_by_time(commits) ==
    IF Len(commits) = 0 THEN <<>>
    ELSE LET sorted == sort_by_time(SubSeq(commits, 1, Len(commits) - 1))
             c == commits[Len(commits)]
             n == Cardinality({i \in DOMAIN sorted :
                                 sorted[i].committed_datetime <= c.committed_datetime})
         IN SubSeq(sorted, 1, n) \o <<c>> \o SubSeq(sorted, n + 1, Len(sorted))

\* time_diff <= 10: a bound that also counts a delta of exactly 10 s
is_superhuman_inclusive(time_diff) == time_diff <= 10

\* if time_diff < 10
is_superhuman(time_diff) == time_diff < 10

\* The loop over the sorted commits from commit i on; prev_commit is <<>>
\* (None) or <<c>>.
RECURSIVE forensic_loop(_, _, _, _, _)
forensic_loop(commits, i, prev_commit, suspicious_commits, dummy_commit_count) ==
    IF i > Len(commits)
    THEN [dummy_commits |-> dummy_commit_count, suspicious_list |-> suspicious_commits]
    ELSE LET c == commits[i]
             msg == strip(c.message)
             added == c.stats[1]
             deleted == c.stats[2]
             dummy == added = 0 /\ deleted = 0
             time_diff == IF Len(prev_commit) > 0
                          THEN c.committed_datetime - prev_commit[1].committed_datetime
                          ELSE 0
             same_msg == Len(prev_commit) > 0 /\ msg = strip(prev_commit[1].message)
             repeated == Len(prev_commit) > 0 /\ same_msg /\ time_diff < 300
             speedy == Len(prev_commit) > 0 /\ is_superhuman(time_diff)
             reasons == (IF dummy THEN <<"Empty/Dummy Commit">> ELSE <<>>)
                        \o (IF repeated THEN <<"Repeated Commit (Spam)">> ELSE <<>>)
                        \o (IF speedy THEN <<"Superhuman Speed (<10s)">> ELSE <<>>)
             is_suspicious == dummy \/ repeated \/ speedy
             entry == [hash |-> c.hexsha, author |-> c.author, msg |-> msg,
                       reasons |-> reasons]
         IN forensic_loop(commits, i + 1, <<c>>,
                          IF is_suspicious THEN Append(suspicious_commits, entry)
                          ELSE suspicious_commits,
                          IF dummy THEN dummy_commit_count + 1 ELSE dummy_commit_count)

analyze_commits(raw) ==
    LET raw_commits == sort_by_time(iter_commits(raw))
        found == forensic_loop(raw_commits, 1, <<>>, <<>>, 0)
    IN [total_commits |-> Len(raw_commits),
        dummy_commits |-> found.dummy_commits,
        suspicious_list |-> found.suspicious_list]

\* node_commit_forensics on the history held in `report`
AnalyzeCommits ==
    /\ mapped = <<>>
    /\ mapped' = <<analyze_commits(report)>>
    /\ UNCHANGED <<report, lifecycleVars>>

InitCommits ==
    /\ InitStore
    /\ setRot = 0
    /\ report \in RawCommits
    /\ mapped = <<>>

NextCommits == AnalyzeCommits

SpecCommits == InitCommits /\ [][NextCommits]_vars

\* ------------------------------------------------------------ properties
Terminal == {"completed", "failed"}

\* C1: in a pipeline run every node is started at most once (its status
\* leaves PENDING once and never changes again), and only when all of its
\* predecessors have finished with SUCCESS: clone before every detector, the
\* aggregator after all eight detectors.
C1_NodeOrder ==
    [][\A j \in JobIds : \A n \in Nodes :
          nodeStatus'[j][n] # nodeStatus[j][n] =>
             /\ nodeStatus[j][n] = "PENDING"
             /\ \A p \in Preds(n) : nodeStatus[j][p] = "SUCCESS"]_vars

\* A run in which all ten nodes ran and the aggregator succeeded.
C1_Witness ==
    \E j \in JobIds : \A n \in Nodes : nodeStatus[j][n] = "SUCCESS"

\* C2: when a detector other than clone raises, the remaining detectors and
\* the aggregator still run and the job is not marked failed because of it.
C2_DetectorFailureTolerated ==
    \A j \in JobIds :
       (pc[j] = "done" /\ \E d \in DetectorSet : nodeStatus[j][d] = "FAILED") =>
          /\ \A n \in Nodes : nodeStatus[j][n] # "PENDING"
          /\ jobs[j].status # "failed"

\* C3: when the clone node fails, no detector and no aggregator is started in
\* that run and the job ends in status failed.
C3_CloneFailureFailsJob ==
    \A j \in JobIds :
       (pc[j] = "done" /\ nodeStatus[j]["clone"] = "FAILED") =>
          /\ \A n \in Nodes \ {"clone"} : nodeStatus[j][n] = "PENDING"
          /\ jobs[j].status = "failed"

\* C4: the progress values written to a job row never decrease.
C4_ProgressMonotonic ==
    [][\A j \in JobIds : jobs'[j].progress >= jobs[j].progress]_vars

\* C5: once a job row is completed or failed, no later step changes its
\* status.
C5_TerminalAbsorbing ==
    [][\A j \in JobIds :
          jobs[j].status \in Terminal => jobs'[j].status = jobs[j].status]_vars

\* A task that went on (to the project row) after its job row became failed.
C5_Witness ==
    \E j \in JobIds :
       /\ pc[j] = "done"
       /\ jobs[j].status = "failed"
       /\ projects[jobs[j].project].status = "failed"

\* A job of project u that was accepted and has not ended.
InFlight(u) ==
    \E j \in JobIds : jobs[j].project = u /\ jobs[j].status \notin Terminal \cup {"none"}

\* C6: while an accepted job of a repository has not ended, a further
\* analyze-repo submission for the same URL (none of whose store calls raises)
\* is answered 409 and creates no job.
C6_DuplicateRejected ==
    [][\A u \in Urls :
          (InFlight(u) /\ nreq' # nreq /\ lastReq'.url = u /\ faults' = faults) =>
             (lastReq'.code = 409 /\ njobs' = njobs)]_vars

\* C7: every project has at most one job in status running.
C7_OneRunningJob ==
    \A u \in Urls :
       Cardinality({j \in JobIds : jobs[j].project = u /\ jobs[j].status = "running"}) <= 1

\* C8: a project's status changes only along pending -> analyzing ->
\* {completed, failed}.  The formula grants two changes more than the claim,
\* failed -> analyzing (the re-analysis of a failed project that the
\* submission rule admits) and pending -> failed (the first status write
\* raised), and so states less than the claim does.
C8_ProjectStatusGraph ==
    [][\A u \in Urls :
          projects'[u].status # projects[u].status =>
             <<projects[u].status, projects'[u].status>> \in
                {<<"absent", "pending">>, <<"pending", "analyzing">>,
                 <<"analyzing", "completed">>, <<"analyzing", "failed">>,
                 <<"failed", "analyzing">>, <<"pending", "failed">>}]_vars

\* C9: a project's score columns are non-null exactly when its status is
\* completed.
C9_ScoresIffCompleted ==
    \A u \in Urls :
       projects[u].status # "absent" =>
          (projects[u].scores <=> projects[u].status = "completed")

\* C10: when analyze_repository returns the report, the job row has status
\* completed and progress 100.
C10_SuccessCompletesJob ==
    \A j \in JobIds :
       result[j] = "returned" => (jobs[j].status = "completed" /\ jobs[j].progress = 100)

\* C11: when analyze_repository has raised (a node of the pipeline raised, or
\* the save of the project row failed), the job row is failed and carries the
\* error message, and the project row is failed.
C11_FatalErrorFailsJobAndProject ==
    \A j \in JobIds :
       (pc[j] = "done" /\ result[j] = "raised") =>
          /\ jobs[j].status = "failed"
          /\ jobs[j].error_message = exc[j]
          /\ projects[jobs[j].project].status = "failed"

\* C12: when analyze_repository has returned or raised, the directory made
\* by the clone node of that run no longer exists.
C12_WorkdirDeleted ==
    \A j \in JobIds : pc[j] = "done" => workdir[j] # "exists"

ChildSteps == {"save_tech", "save_issues", "save_team"}

\* The child rows of project u.
ChildRows(u) == <<tech_stack[u], issues[u], team_members[u]>>

\* C13: a step that inserts child rows for a project is taken only when the
\* project row already holds the scores with status completed, and at a
\* statement that precedes the cache invalidation of that save.
C13_SaveOrder ==
    [][\A j \in JobIds :
          (jobs[j].status # "none" /\ ChildRows(jobs[j].project)' # ChildRows(jobs[j].project)) =>
             /\ projects[jobs[j].project].scores
             /\ projects[jobs[j].project].status = "completed"
             /\ StepIndex(pc[j]) < StepIndex("invalidate")]_vars

\* A run that returned after inserting rows into all three child tables.
C13_Witness ==
    \E j \in JobIds :
       /\ result[j] = "returned"
       /\ j \in tech_stack[jobs[j].project]
       /\ j \in issues[jobs[j].project]
       /\ j \in team_members[jobs[j].project]

\* C14: a child-table write that fails leaves the project row as the save
\* wrote it and lets the save go on with its next step; a run in which a
\* child write failed still returns, with the project row holding the scores.
C14_ChildFailureIsolated ==
    [][\A j \in JobIds :
          /\ (pc[j] \in ChildSteps /\ warned'[j] # warned[j]) =>
                (projects' = projects /\ pc'[j] = NextStep(pc[j]))
          /\ (warned'[j] # {} /\ pc'[j] = "done") =>
                (result'[j] = "returned" /\ projects'[jobs'[j].project].scores)]_vars

\* A run that returned although its tech stack write failed, with the issues
\* written after that failure.
C14_Witness ==
    \E j \in JobIds :
       /\ result[j] = "returned"
       /\ "save_tech" \in warned[j]
       /\ j \in issues[jobs[j].project]
       /\ projects[jobs[j].project].status = "completed"

\* C15: when the project-row write with the blob fails, the save retries it
\* (nothing written yet); a retry that succeeds stores the scores and status
\* completed without a blob and the save goes on; the save fails, and
\* analyze_repository raises, only when the retry fails too.
C15_BlobRetry ==
    [][\A j \in JobIds :
          /\ (pc[j] = "save" /\ faults' > faults) =>
                (pc'[j] = "save_retry" /\ projects' = projects)
          /\ (pc[j] = "save_retry" /\ pc'[j] # pc[j] /\ faults' = faults) =>
                /\ projects'[jobs[j].project] =
                      [status |-> "completed", scores |-> TRUE, report_json |-> FALSE]
                /\ pc'[j] = NextStep("save")
          /\ (pc[j] \in {"save", "save_retry"} /\ pc'[j] = "except") =>
                (pc[j] = "save_retry" /\ faults' > faults)
          /\ (pc[j] = "save_retry" /\ faults' > faults) => pc'[j] = "except"]_vars

\* A run that returned with the project stored by the retry: completed, with
\* scores, without a blob.
C15_Witness ==
    \E j \in JobIds :
       /\ result[j] = "returned"
       /\ projects[jobs[j].project] =
             [status |-> "completed", scores |-> TRUE, report_json |-> FALSE]

\* The keys of the responses that depend on project u.
AffectedKeys(u) == {project_key(u), projects_key, leaderboard_key, chart_key, stats_key}

\* C16: when the cache invalidation of a save has run with the cache
\* connected, the cache holds no entry for the project's detail, the project
\* list, the leaderboard (list and chart) or the stats.
C16_NoStaleEntry ==
    [][\A j \in JobIds :
          (pc[j] = "invalidate" /\ pc'[j] # pc[j] /\ cacheClient) =>
             cache' \cap AffectedKeys(jobs[j].project) = {}]_vars

\* C17: a delete request for an existing project leaves no project row, no
\* child row and no job row of that project.
C17_DeleteCascades ==
    [][\A u \in Urls :
          (lastReq' # lastReq /\ lastReq'.op = "delete" /\ lastReq'.url = u
             /\ projects[u].status # "absent") =>
             /\ projects'[u].status = "absent"
             /\ ChildRows(u)' = <<{}, {}, {}>>
             /\ \A j \in JobIds : jobs'[j].project # u]_vars

\* The weighted sum the claim states, of the persisted columns m, in units
\* of 1/10000: 0.20 originality + 0.15 quality + 0.10 security + 0.10 effort
\* + 0.25 implementation + 0.10 engineering + 0.05 organization
\* + 0.05 documentation, None counting as 0.
ClaimedTotal(m) ==
    20 * or0(m["originality"]) + 15 * or0(m["quality"]) + 10 * or0(m["security"])
    + 10 * or0(m["effort"]) + 25 * or0(m["implementation"]) + 10 * or0(m["engineering"])
    + 5 * or0(m["organization"]) + 5 * or0(m["documentation"])

\* C18: the total_score map_scores stores is within 0.01 of the weighted sum
\* of the component scores it stores.
C18_TotalIsWeightedSum ==
    mapped # <<>> =>
       LET d == 100 * mapped["total"][1] - ClaimedTotal(mapped)
       IN -100 <= d /\ d <= 100

\* A mapping with a None component and unequal components whose weighted sum
\* is not a whole number of hundredths.
C18_Witness ==
    /\ mapped # <<>>
    /\ mapped["implementation"] = None
    /\ mapped["originality"] # mapped["engineering"]
    /\ ClaimedTotal(mapped) % 100 # 0

\* C19: the total_score map_scores stores lies in [0, 100].
C19_TotalInRange ==
    mapped # <<>> => (0 <= mapped["total"][1] /\ mapped["total"][1] <= 10000)

\* C20: for a team with at least one member, the contribution percentages
\* map_team_members computes sum to 100 within 1.
C20_PercentagesSumTo100 ==
    (mapped # <<>> /\ members(report) >= 1) =>
       LET total == SumOver([c \in DOMAIN report |-> report[c] * mapped[c][1]], DOMAIN report)
       IN 9900 <= total /\ total <= 10100

\* C22: two files with the same token sequence have the same winnowing
\* fingerprint and the Jaccard similarity of the two fingerprints is exactly
\* 1.0, for every token sequence.
C22_IdenticalFilesSimilarityOne ==
    (mapped # <<>> /\ report[1] = report[2]) =>
       /\ mapped[1].fingerprint_a = mapped[1].fingerprint_b
       /\ mapped[1].token_similarity = 100

\* the minimum hash of the window of ww hashes that starts at position i
WindowMin(khashes, i, ww) ==
    CHOOSE h \in {khashes[j][1] : j \in (i + 1)..(i + ww)} :
       \A j \in (i + 1)..(i + ww) : h <= khashes[j][1]

\* C26: the fingerprint returned by winnow_hashes is exactly the set of the
\* minimum hashes of the sliding windows of 4 consecutive 5-gram hashes:
\* every window contributes its minimum and every element is the minimum of
\* some window.
C26_FingerprintIsWindowMinima ==
    mapped # <<>> =>
       LET khashes == kgram_hashes(report[1], 5)
           nwin == IF Len(khashes) >= 4 THEN Len(khashes) - 4 + 1 ELSE 0
       IN /\ \A i \in 0..(nwin - 1) : WindowMin(khashes, i, 4) \in mapped[1].fingerprint_a
          /\ \A h \in mapped[1].fingerprint_a :
                \E i \in 0..(nwin - 1) : h = WindowMin(khashes, i, 4)

\* a token list with at least two windows has been fingerprinted, and two of
\* its windows have different minima
C26_Witness ==
    /\ mapped # <<>>
    /\ Len(report[1]) >= 9
    /\ Cardinality(mapped[1].fingerprint_a) >= 2

\* C21: for every secret leak that the security detector reports in a job's
\* report, the data mapper produces one issue of kind security with severity
\* high: the mapped issues hold as many such issues as the scan found leaks.
C21_SecurityIssuePerLeak ==
    mapped # <<>> =>
       LET IsSecurityHigh(i) == i.type = "security" /\ i.severity = "high"
       IN Len(SelectSeq(mapped[1], IsSecurityHigh)) = Len(report.security_report.details)

\* the largest AI percentage over all files the origin detector scored
MaxAiPct(llm) ==
    IF DOMAIN llm = {} THEN 0
    ELSE CHOOSE m \in {llm[f] * 100 : f \in DOMAIN llm} :
            \A f \in DOMAIN llm : m >= llm[f] * 100

\* C23: the originality score of the report equals max(0, 100 - M) where M
\* is the maximum AI percentage over all files the origin detector scored,
\* the files with risk at or below 15 included.
C23_OriginalityFromMaxAi ==
    ("final_report" \in DOMAIN report /\ "llm_data" \in DOMAIN report) =>
       LET m == MaxAiPct(report.llm_data)
       IN report.final_report.scores.originality = (IF 10000 - m > 0 THEN 10000 - m ELSE 0)

\* the detector output each score of the report is derived from
ScoreSource ==
    [originality |-> "llm_data", quality |-> "quality_metrics",
     security |-> "security_report", effort |-> "commit_analysis",
     implementation |-> "ai_judgment", engineering |-> "maturity",
     organization |-> "structure", documentation |-> "quality_metrics"]

FingerprintSimilarity(content_a, content_b) ==
    jaccard_fingerprint(winnow_hashes(split(content_a), 5, 4),
                        winnow_hashes(split(content_b), 5, 4))

\* C25: the similarity the forensic-analysis node computes for two pool files
\* is the Jaccard similarity of their winnowing fingerprints, so the best
\* score recorded for a file is at least its similarity with every other pool
\* file, and two distinct pool files with identical content each record a
\* best match with score 1.0.
C25_PoolSimilarityIsJaccard ==
    "plag_data" \in DOMAIN report =>
       \A fa \in DOMAIN report.plag_data : \A fb \in (DOMAIN report.plag_data) \ {fa} :
          LET ca == report.repo_path[fa].content
              cb == report.repo_path[fb].content
          IN /\ report.plag_data[fa].score >= FingerprintSimilarity(ca, cb)
             /\ ca = cb => /\ report.plag_data[fa].score = 100
                           /\ Len(report.plag_data[fa].match) # 0

\* C28: the mapped issues hold exactly one issue of kind quality when the
\* quality detector's maintainability index is below 50, of severity high
\* exactly when the index is below 20 and medium otherwise, and no quality
\* issue when the index is 50 or more.
C28_QualityIssueByMaintainability ==
    mapped # <<>> =>
       LET IsQuality(i) == i.type = "quality"
           found == SelectSeq(mapped[1], IsQuality)
           mi == report.quality_metrics.maintainability_index
       IN IF mi < 5000
          THEN /\ Len(found) = 1
               /\ found[1].severity = (IF mi < 2000 THEN "high" ELSE "medium")
          ELSE Len(found) = 0

\* C29: the aggregator node completes without raising on every pair of LLM
\* and plagiarism maps the forensic-analysis node produces.
C29_AggregatorNeverRaises ==
    "plag_data" \in DOMAIN report => "error" \notin DOMAIN report

\* the commits of the history in chronological order
Chronological == sort_by_time(iter_commits(report))

\* the predicates of C27 that hold of the i-th commit in chronological order
Predicates(i) ==
    LET c == Chronological[i]
        delta == IF i > 1
                 THEN c.committed_datetime - Chronological[i - 1].committed_datetime
                 ELSE 0
    IN {p \in {"Empty/Dummy Commit"} : c.stats = <<0, 0>>}
       \cup {p \in {"Repeated Commit (Spam)"} :
               /\ i > 1
               /\ strip(c.message) = strip(Chronological[i - 1].message)
               /\ delta < 300}
       \cup {p \in {"Superhuman Speed (<10s)"} : i > 1 /\ delta < 10}

C30_FinishedTaskLeavesTerminalJob ==
    \A j \in JobIds :
       (pc[j] = "done" /\ result[j] \in {"returned", "raised"}) =>
          jobs[j].status \notin {"queued", "running"}

====
